---- MODULE Spec2Model ----
(***************************************************************************)
(* Model of the serving container (scorer.py, predictor.py, errors.py) and *)
(* of the inference gateway Lambda (functions/inference/api/index.py).     *)
(*                                                                         *)
(*   Spec      one request at a time against the container process         *)
(*   ConcSpec  two request threads interleaved inside load_model           *)
(*   ErrSpec   the named constructors of ScoringFailure                    *)
(*   GwSpec    invocations of the gateway handler in one Lambda process    *)
(***************************************************************************)
EXTENDS Integers, Sequences, FiniteSets, TLC

(* ------------------------------ bounds --------------------------------- *)
MaxLen == 2        \* longest 1-D feature list / widest row
MaxRows == 2       \* most rows of a 2-D feature list
MaxVal == 2        \* feature values are 1..MaxVal
MaxLoads == 3      \* storage loads in one behaviour
MaxCalls == 2      \* gateway calls recorded in one behaviour

(* --------------------------- python values ----------------------------- *)
None == "None"

\* The objects joblib.load can hand back: any pickled Python object.
\* SumModel and ConstModel are estimators, None is a pickled None.
Objects == {"SumModel", "ConstModel", None}

\* Python truth value of ScoringService.model as tested by `if not cls.model`
\* and by `200 if ScoringService.model else 404`.
Truthy(m) == m \in {"SumModel", "ConstModel"}

Raise == "raise"
\* joblib.load("/opt/ml/model/model.joblib") either raises (file missing or
\* corrupt) or returns the deserialised object.
LoadOutcomes == {Raise} \cup Objects

NoExc == "NoExc"

(* ------------------------------ numpy ---------------------------------- *)
Vals == 1..MaxVal

SeqsUpTo(S, n) == UNION {[1..k -> S] : k \in 0..n}

RECURSIVE Flatten(_)
Flatten(rows) == IF rows = <<>> THEN <<>> ELSE Head(rows) \o Flatten(Tail(rows))

RECURSIVE SumSeq(_)
SumSeq(s) == IF s = <<>> THEN 0 ELSE Head(s) + SumSeq(Tail(s))

\* JSON values that can sit under the "features" key.
Num(n) == [t |-> "num", v |-> n]
List1(s) == [t |-> "list1", v |-> s]
List2(rows) == [t |-> "list2", v |-> rows]

Features1D == {List1(s) : s \in SeqsUpTo(Vals, MaxLen)}
Features2D == {List2(rows) : rows \in UNION {[1..r -> [1..c -> Vals]] : r \in 1..MaxRows, c \in 0..MaxLen}}
Features0D == {Num(n) : n \in Vals}
FeatureValues == Features0D \cup Features1D \cup Features2D

\* np.array(x): an n-dimensional array is its shape plus its elements in
\* row-major order.
np_array(x) ==
  CASE x.t = "num" -> [shape |-> <<>>, flat |-> <<x.v>>]
    [] x.t = "list1" -> [shape |-> <<Len(x.v)>>, flat |-> x.v]
    [] x.t = "list2" -> [shape |-> <<Len(x.v), Len(x.v[1])>>, flat |-> Flatten(x.v)]

ndim(a) == Len(a.shape)

\* a.reshape(1, -1): one row holding every element.
reshape_1_m1(a) == [shape |-> <<1, Len(a.flat)>>, flat |-> a.flat]

\* ndarray.tolist() of a 1-D or 2-D array.
tolist(a) ==
  CASE ndim(a) = 1 -> a.flat
    [] ndim(a) = 2 ->
         [r \in 1..a.shape[1] |->
            [c \in 1..a.shape[2] |-> a.flat[(r - 1) * a.shape[2] + c]]]

(* ------------------------------ requests ------------------------------- *)
JSON == "application/json"

\* Declared content types of a request; None is a request without the header.
ContentTypes == {JSON, "application/json; charset=utf-8", "text/plain", None}

\* A parsed JSON document: null, a top-level list, or an object that may
\* carry the "features" key.
JNull == [k |-> "null", hasFeatures |-> FALSE, features |-> Num(0)]
JList == [k |-> "list", hasFeatures |-> FALSE, features |-> Num(0)]
JEmptyDict == [k |-> "dict", hasFeatures |-> FALSE, features |-> Num(0)]
JFeatures(f) == [k |-> "dict", hasFeatures |-> TRUE, features |-> f]

Docs == {JNull, JList, JEmptyDict} \cup {JFeatures(f) : f \in FeatureValues}

\* A request body: no bytes at all, bytes that are not JSON, or JSON text
\* denoting a document.
EmptyBody == [text |-> "empty", doc |-> JNull]
GarbageBody == [text |-> "garbage", doc |-> JNull]
JsonBody(d) == [text |-> "json", doc |-> d]

Bodies == {EmptyBody, GarbageBody} \cup {JsonBody(d) : d \in Docs}

PingRequest == [route |-> "/ping", ctype |-> None, body |-> EmptyBody]
InvocationRequests == [route : {"/invocations"}, ctype : ContentTypes, body : Bodies]
Requests == {PingRequest} \cup InvocationRequests

NoRequest == [route |-> "none", ctype |-> None, body |-> EmptyBody]

(* --------------------------- scorer.py --------------------------------- *)
NoArray == [shape |-> <<>>, flat |-> <<>>]

\* A load that stores a half-built object before it raises.
load_model_partial(m, outcome) ==
  IF ~Truthy(m)
    THEN IF outcome = Raise
           THEN [model |-> "SumModel", exc |-> "joblibError", io |-> 1]
           ELSE [model |-> outcome, exc |-> NoExc, io |-> 1]
    ELSE [model |-> m, exc |-> NoExc, io |-> 0]

\* load_model without the `if not cls.model` guard: every call reloads.
load_model_unguarded(m, outcome) ==
  IF outcome = Raise
    THEN [model |-> m, exc |-> "joblibError", io |-> 1]
    ELSE [model |-> outcome, exc |-> NoExc, io |-> 1]

\* ScoringService.load_model applied to the current class attribute `m`;
\* `outcome` is what joblib.load does if it is called.  io counts the calls
\* of joblib.load.
load_model(m, outcome) ==
  IF ~Truthy(m)
    THEN IF outcome = Raise
           THEN [model |-> m, exc |-> "joblibError", io |-> 1]
           ELSE [model |-> outcome, exc |-> NoExc, io |-> 1]
    ELSE [model |-> m, exc |-> NoExc, io |-> 0]

\* flask.Request.get_json() for a request whose mimetype is JSON: a body
\* that does not parse raises werkzeug's BadRequest.
get_json(body) ==
  IF body.text = "json"
    THEN [exc |-> NoExc, doc |-> body.doc]
    ELSE [exc |-> "BadRequest", doc |-> JNull]

\* input_fn without the reshape of a 1-D array.
input_fn_no_reshape(body) ==
  LET j == get_json(body) IN
  IF j.exc # NoExc THEN [exc |-> j.exc, value |-> NoArray]
  ELSE IF j.doc.k # "dict" THEN [exc |-> "TypeError", value |-> NoArray]
  ELSE IF ~j.doc.hasFeatures THEN [exc |-> "KeyError", value |-> NoArray]
  ELSE [exc |-> NoExc, value |-> np_array(j.doc.features)]

\* ScoringService.input_fn
input_fn(body) ==
  LET j == get_json(body) IN
  IF j.exc # NoExc THEN [exc |-> j.exc, value |-> NoArray]
  ELSE IF j.doc.k # "dict" THEN [exc |-> "TypeError", value |-> NoArray]
  ELSE IF ~j.doc.hasFeatures THEN [exc |-> "KeyError", value |-> NoArray]
  ELSE LET features == np_array(j.doc.features) IN
       IF ndim(features) = 1
         THEN [exc |-> NoExc, value |-> reshape_1_m1(features)]
         ELSE [exc |-> NoExc, value |-> features]

\* estimator.predict(X) of the loaded object: X must be 2-D with at least
\* one column; one prediction per row, in row order.
estimator_predict(m, inp) ==
  IF ndim(inp) # 2 \/ inp.shape[2] = 0
    THEN [exc |-> "ValueError", value |-> NoArray]
    ELSE LET rows == tolist(inp) IN
         [exc |-> NoExc,
          value |-> [shape |-> <<Len(rows)>>,
                     flat |-> [r \in 1..Len(rows) |->
                                 IF m = "SumModel" THEN SumSeq(rows[r]) ELSE 0]]]

\* ScoringService.predict_fn: cls.model.predict(inp)
predict_fn(m, inp) ==
  IF m = None
    THEN [exc |-> "AttributeError", value |-> NoArray]
    ELSE estimator_predict(m, inp)

(* -------------------------- predictor.py ------------------------------- *)
\* What Flask answers when a view raises: an HTTPException keeps its own
\* code, anything else becomes 500 Internal Server Error.
flask_status(exc) == IF exc = "BadRequest" THEN 400 ELSE 500

NoTrace == [calledLoad |-> FALSE, io |-> 0, loadRaised |-> FALSE,
            calledInput |-> FALSE, calledPredict |-> FALSE,
            batch |-> NoArray, logged |-> 0]

Failure(exc) == [status |-> flask_status(exc), exc |-> exc, out |-> <<>>]

\* ping(): the view of GET /ping
ping(m, outcome) ==
  LET l == load_model(m, outcome)
      tr == [NoTrace EXCEPT !.calledLoad = TRUE, !.io = l.io,
                            !.loadRaised = (l.exc # NoExc)]
  IN IF l.exc # NoExc
       THEN [model |-> l.model, trace |-> tr, response |-> Failure(l.exc)]
       ELSE LET status == IF Truthy(l.model) THEN 200 ELSE 404 IN
            [model |-> l.model,
             trace |-> [tr EXCEPT !.logged = status],
             response |-> [status |-> 200, exc |-> NoExc, out |-> <<>>]]

\* Lines 49-50 and 57 of transformation(): input_fn, predict_fn and the
\* jsonify of the result, against the class attribute `m` as it is then.
score(m, body) ==
  LET features == input_fn(body) IN
  IF features.exc # NoExc
    THEN [calledPredict |-> FALSE, batch |-> NoArray,
          response |-> Failure(features.exc)]
    ELSE LET res == predict_fn(m, features.value) IN
         [calledPredict |-> TRUE, batch |-> features.value,
          response |-> IF res.exc # NoExc
                         THEN Failure(res.exc)
                         ELSE [status |-> 200, exc |-> NoExc,
                               out |-> tolist(res.value)]]

\* transformation with load_model called ahead of the content type test.
transformation_load_first(m, rq, outcome) ==
  LET l == load_model(m, outcome)
      t1 == [NoTrace EXCEPT !.calledLoad = TRUE, !.io = l.io,
                            !.loadRaised = (l.exc # NoExc)]
  IN IF l.exc # NoExc
       THEN [model |-> l.model, trace |-> t1, response |-> Failure(l.exc)]
       ELSE IF rq.ctype = JSON
              THEN LET sc == score(l.model, rq.body) IN
                   [model |-> l.model,
                    trace |-> [t1 EXCEPT !.calledInput = TRUE,
                                         !.calledPredict = sc.calledPredict,
                                         !.batch = sc.batch],
                    response |-> sc.response]
              ELSE [model |-> l.model, trace |-> t1,
                    response |-> Failure("ValueError")]

\* transformation(): the view of POST /invocations
transformation(m, rq, outcome) ==
  IF rq.ctype = JSON
    THEN LET l == load_model(m, outcome)
             t1 == [NoTrace EXCEPT !.calledLoad = TRUE, !.io = l.io,
                                   !.loadRaised = (l.exc # NoExc)]
         IN IF l.exc # NoExc
              THEN [model |-> l.model, trace |-> t1, response |-> Failure(l.exc)]
              ELSE LET sc == score(l.model, rq.body) IN
                   [model |-> l.model,
                    trace |-> [t1 EXCEPT !.calledInput = TRUE,
                                         !.calledPredict = sc.calledPredict,
                                         !.batch = sc.batch],
                    response |-> sc.response]
    ELSE [model |-> m, trace |-> NoTrace, response |-> Failure("ValueError")]

(* ------------------- the container process, one request at a time ------ *)
VARIABLES
  model,      \* ScoringService.model
  ioCount,    \* calls of joblib.load so far
  request,    \* the request handled last
  response,   \* the response it got
  trace       \* what the handler did for it

servingVars == <<model, ioCount, request, response, trace>>

NoResponse == [status |-> 0, exc |-> NoExc, out |-> <<>>]

ServingInit ==
  /\ model = None
  /\ ioCount = 0
  /\ request = NoRequest
  /\ response = NoResponse
  /\ trace = NoTrace

Apply(rq, r) ==
  /\ model' = r.model
  /\ ioCount' = ioCount + r.trace.io
  /\ request' = rq
  /\ response' = r.response
  /\ trace' = r.trace

Ping ==
  /\ ioCount < MaxLoads
  /\ \E outcome \in LoadOutcomes : Apply(PingRequest, ping(model, outcome))

Transformation ==
  /\ ioCount < MaxLoads
  /\ \E rq \in InvocationRequests, outcome \in LoadOutcomes :
       Apply(rq, transformation(model, rq, outcome))

ServingNext == Ping \/ Transformation

(* ------------- the container process, request threads interleaved ----- *)
Workers == {1, 2}

\* The requests the threads serve: a probe, a scoring request and a request
\* of an unsupported type.
ConcRequests ==
  {PingRequest,
   [route |-> "/invocations", ctype |-> JSON,
    body |-> JsonBody(JFeatures(List1(<<1, 2>>)))],
   [route |-> "/invocations", ctype |-> "text/plain", body |-> GarbageBody]}

VARIABLES
  pc,      \* where each thread is in its view
  wreq,    \* the request each thread serves
  wobj,    \* the object joblib.load returned to the thread, not yet assigned
  wresp    \* the response of each thread

concVars == <<pc, wreq, wobj, wresp>>

ConcInit ==
  /\ pc = [w \in Workers |-> "idle"]
  /\ wreq = [w \in Workers |-> NoRequest]
  /\ wobj = [w \in Workers |-> None]
  /\ wresp = [w \in Workers |-> NoResponse]

\* A thread picks up a request; an /invocations request of another content
\* type takes the else branch and raises (predictor.py:51-54).
Start(w) ==
  /\ pc[w] = "idle"
  /\ ioCount < MaxLoads
  /\ \E rq \in ConcRequests :
       /\ wreq' = [wreq EXCEPT ![w] = rq]
       /\ IF rq.route = "/invocations" /\ rq.ctype # JSON
            THEN /\ pc' = [pc EXCEPT ![w] = "done"]
                 /\ wresp' = [wresp EXCEPT ![w] = Failure("ValueError")]
            ELSE /\ pc' = [pc EXCEPT ![w] = "check"]
                 /\ wresp' = [wresp EXCEPT ![w] = NoResponse]
  /\ UNCHANGED <<model, ioCount, wobj>>

\* scorer.py:31  if not cls.model
CheckModel(w) ==
  /\ pc[w] = "check"
  /\ pc' = [pc EXCEPT ![w] = IF ~Truthy(model) THEN "load" ELSE "rest"]
  /\ UNCHANGED <<model, ioCount, wreq, wobj, wresp>>

\* scorer.py:32  the thread enters joblib.load
BeginLoad(w) ==
  /\ pc[w] = "load"
  /\ pc' = [pc EXCEPT ![w] = "loading"]
  /\ ioCount' = ioCount + 1
  /\ UNCHANGED <<model, wreq, wobj, wresp>>

\* scorer.py:32  joblib.load returns or raises
EndLoad(w) ==
  /\ pc[w] = "loading"
  /\ \E outcome \in LoadOutcomes :
       IF outcome = Raise
         THEN /\ pc' = [pc EXCEPT ![w] = "done"]
              /\ wresp' = [wresp EXCEPT ![w] = Failure("joblibError")]
              /\ UNCHANGED wobj
         ELSE /\ pc' = [pc EXCEPT ![w] = "store"]
              /\ wobj' = [wobj EXCEPT ![w] = outcome]
              /\ UNCHANGED wresp
  /\ UNCHANGED <<model, ioCount, wreq>>

\* scorer.py:32  cls.model = <the loaded object>
StoreModel(w) ==
  /\ pc[w] = "store"
  /\ model' = wobj[w]
  /\ pc' = [pc EXCEPT ![w] = "rest"]
  /\ UNCHANGED <<ioCount, wreq, wobj, wresp>>

\* The rest of the view after load_model returned.
Finish(w) ==
  /\ pc[w] = "rest"
  /\ wresp' = [wresp EXCEPT ![w] =
                 IF wreq[w].route = "/ping"
                   THEN [status |-> 200, exc |-> NoExc, out |-> <<>>]
                   ELSE score(model, wreq[w].body).response]
  /\ pc' = [pc EXCEPT ![w] = "done"]
  /\ UNCHANGED <<model, ioCount, wreq, wobj>>

\* The response has been sent; the thread is free again.
Return(w) ==
  /\ pc[w] = "done"
  /\ pc' = [pc EXCEPT ![w] = "idle"]
  /\ wobj' = [wobj EXCEPT ![w] = None]
  /\ UNCHANGED <<model, ioCount, wreq, wresp>>

ConcNext ==
  \E w \in Workers :
    \/ Start(w)
    \/ CheckModel(w)
    \/ BeginLoad(w)
    \/ EndLoad(w)
    \/ StoreModel(w)
    \/ Finish(w)
    \/ Return(w)

(* ----------------------------- errors.py -------------------------------- *)
DefaultStatus == 500

PayloadKeys == {"detail", "path", "type"}

\* A payload is None or a mapping; a mapping is its set of items.
NonePayload == [none |-> TRUE, items |-> {}]
DictPayload(f) == [none |-> FALSE, items |-> {<<k, f[k]>> : k \in DOMAIN f}]
Payloads ==
  {NonePayload} \cup
  {DictPayload(f) : f \in UNION {[K -> Vals] : K \in SUBSET PayloadKeys}}

\* template(message, payload, status_code=500)
template(message, payload, status_code) ==
  [message |-> message, payload |-> payload, status_code |-> status_code]

\* __init__ that never overrides the class attribute status_code.
ScoringFailure_class_status(message, status_code, payload) ==
  [message |-> message, status_code |-> DefaultStatus, payload |-> payload]

\* ScoringFailure.__init__: the class attribute status_code = 500 stays when
\* the argument is falsy.
ScoringFailure(message, status_code, payload) ==
  [message |-> message,
   status_code |-> IF status_code # 0 THEN status_code ELSE DefaultStatus,
   payload |-> payload]

\* cls(**template(...))
FromTemplate(t) == ScoringFailure(t.message, t.status_code, t.payload)

model_not_loaded(payload) ==
  FromTemplate(template("Model could not be loaded", payload, DefaultStatus))

model_wrong_format(payload) ==
  FromTemplate(template("Supplied model is in wrong format", payload, DefaultStatus))

missing_env(payload) ==
  FromTemplate(template("Endpoint environment is not configured properly", payload, DefaultStatus))

unsupported_payload(payload) ==
  FromTemplate(template("Model supports JSON inputs only ", payload, 415))

empty_data(payload) ==
  FromTemplate(template("Received empty data file", payload, 400))

data_not_supported(payload) ==
  FromTemplate(template("Model does not support supplied data schema", payload, 400))

cannot_read_data(payload) ==
  FromTemplate(template("Could not read input data", payload, DefaultStatus))

could_not_return_data(payload) ==
  FromTemplate(template("Could not return data to invoke lambda", payload, 416))

request_not_supported(payload) ==
  FromTemplate(template("No handler for JSON content", payload, 400))

VARIABLES
  errCall,   \* the constructor called last and its payload argument
  err        \* the ScoringFailure it returned

errVars == <<errCall, err>>

ErrInit ==
  /\ errCall = [ctor |-> "none", payload |-> NonePayload]
  /\ err = [message |-> "", status_code |-> 0, payload |-> NonePayload]

Construct(ctor, payload, e) ==
  /\ errCall' = [ctor |-> ctor, payload |-> payload]
  /\ err' = e

ErrNext ==
  \E p \in Payloads :
    \/ Construct("model_not_loaded", p, model_not_loaded(p))
    \/ Construct("model_wrong_format", p, model_wrong_format(p))
    \/ Construct("missing_env", p, missing_env(p))
    \/ Construct("unsupported_payload", p, unsupported_payload(p))
    \/ Construct("empty_data", p, empty_data(p))
    \/ Construct("data_not_supported", p, data_not_supported(p))
    \/ Construct("cannot_read_data", p, cannot_read_data(p))
    \/ Construct("could_not_return_data", p, could_not_return_data(p))
    \/ Construct("request_not_supported", p, request_not_supported(p))

(* ------------------- functions/inference/api/index.py ------------------- *)
Digits == <<"0", "1", "2", "3", "4", "5", "6", "7", "8", "9">>

\* The JSON text of a list of small numbers, one token per element.
RECURSIVE Elements(_)
Elements(v) ==
  IF v = <<>> THEN <<>>
  ELSE IF Len(v) = 1 THEN <<Digits[v[1] + 1]>>
  ELSE <<Digits[v[1] + 1], ",">> \o Elements(Tail(v))

json_dumps(v) == <<"[">> \o Elements(v) \o <<"]">>

\* json.loads of such a text.
json_loads(text) ==
  [i \in 1..(Len(text) - 1) \div 2 |->
     (CHOOSE d \in 1..10 : Digits[d] = text[2 * i]) - 1]

\* What the endpoint answers on success: the container's jsonify of a list
\* of predictions (predictor.py:57).
BackendValues == SeqsUpTo(0..MaxVal, MaxRows)
BackendOutcomes ==
  {[ok |-> FALSE, text |-> <<>>]} \cup
  {[ok |-> TRUE, text |-> json_dumps(v)] : v \in BackendValues}

EndpointNames == {"grp-dev-endpoint", "grp-prod-endpoint"}

GwResources == {"/inference", "/inference/", "/", "/ping"}
GwBodies == {None, "", "not json", "{\"features\": [1, 2]}"}
Events == [resource : GwResources, body : GwBodies]

Header == [name |-> "x-custom-header", value |-> "Inference API Response"]
NoCall == [EndpointName |-> None, Body |-> None, ContentType |-> None]

\* sm.invoke_endpoint(**call): botocore rejects a Body of None before any
\* request is sent; otherwise the endpoint answers or the call raises.
invoke_endpoint(call, outcome) ==
  IF call.Body = None THEN [ok |-> FALSE, text |-> <<>>] ELSE outcome

\* handler that re-encodes the body before forwarding it.
handler_reencoded(event, endpoint, outcome) ==
  LET resource == event.resource IN
  IF resource = "/inference"
    THEN LET call == [EndpointName |-> endpoint, Body |-> "re-encoded",
                      ContentType |-> JSON]
             res == invoke_endpoint(call, outcome)
         IN [called |-> TRUE, call |-> call,
             result |-> IF res.ok
                          THEN [kind |-> "return", statusCode |-> 200,
                                headers |-> Header, hasBody |-> TRUE,
                                body |-> json_loads(res.text)]
                          ELSE [kind |-> "raise", statusCode |-> 0,
                                headers |-> Header, hasBody |-> FALSE,
                                body |-> <<>>]]
    ELSE [called |-> FALSE, call |-> NoCall,
          result |-> [kind |-> "return", statusCode |-> 404,
                      headers |-> Header, hasBody |-> FALSE, body |-> <<>>]]

\* handler that routes on a prefix of the resource instead of equality.
handler_prefix(event, endpoint, outcome) ==
  LET resource == event.resource IN
  IF resource \in {"/inference", "/inference/"}
    THEN LET call == [EndpointName |-> endpoint, Body |-> event.body,
                      ContentType |-> JSON]
             res == invoke_endpoint(call, outcome)
         IN [called |-> TRUE, call |-> call,
             result |-> IF res.ok
                          THEN [kind |-> "return", statusCode |-> 200,
                                headers |-> Header, hasBody |-> TRUE,
                                body |-> json_loads(res.text)]
                          ELSE [kind |-> "raise", statusCode |-> 0,
                                headers |-> Header, hasBody |-> FALSE,
                                body |-> <<>>]]
    ELSE [called |-> FALSE, call |-> NoCall,
          result |-> [kind |-> "return", statusCode |-> 404,
                      headers |-> Header, hasBody |-> FALSE, body |-> <<>>]]

\* handler(event, context) with the module global ENDPOINT_NAME = `endpoint`
handler(event, endpoint, outcome) ==
  LET resource == event.resource IN
  IF resource = "/inference"
    THEN LET call == [EndpointName |-> endpoint, Body |-> event.body,
                      ContentType |-> JSON]
             res == invoke_endpoint(call, outcome)
         IN [called |-> TRUE, call |-> call,
             result |-> IF res.ok
                          THEN [kind |-> "return", statusCode |-> 200,
                                headers |-> Header, hasBody |-> TRUE,
                                body |-> json_loads(res.text)]
                          ELSE [kind |-> "raise", statusCode |-> 0,
                                headers |-> Header, hasBody |-> FALSE,
                                body |-> <<>>]]
    ELSE [called |-> FALSE, call |-> NoCall,
          result |-> [kind |-> "return", statusCode |-> 404,
                      headers |-> Header, hasBody |-> FALSE, body |-> <<>>]]

VARIABLES
  ENDPOINT_NAME,  \* the module global read from the environment at import
  event,          \* the event handled last
  backend,        \* what the endpoint would answer to it
  made,           \* whether the handler called invoke_endpoint for it
  calls,          \* the calls of invoke_endpoint so far
  result,         \* what the handler returned or that it raised
  environ,        \* ENDPOINT_NAME in the environment configuration now
  environThen     \* what it was while the handler ran last

gwVars == <<ENDPOINT_NAME, event, backend, made, calls, result, environ, environThen>>

NoEvent == [resource |-> "none", body |-> None]
NoResult == [kind |-> "none", statusCode |-> 0, headers |-> Header,
             hasBody |-> FALSE, body |-> <<>>]

\* A process that has not imported the gateway module.
GwAbsent ==
  /\ ENDPOINT_NAME = None
  /\ event = NoEvent
  /\ backend = [ok |-> FALSE, text |-> <<>>]
  /\ made = FALSE
  /\ calls = <<>>
  /\ result = NoResult
  /\ environ = None
  /\ environThen = None

\* index.py:27 ENDPOINT_NAME = os.getenv("ENDPOINT_NAME"), set by the stack
\* to the endpoint of the stage.
GwInit ==
  /\ environ \in EndpointNames
  /\ ENDPOINT_NAME = environ
  /\ event = NoEvent
  /\ backend = [ok |-> FALSE, text |-> <<>>]
  /\ made = FALSE
  /\ calls = <<>>
  /\ result = NoResult
  /\ environThen = None

\* An invocation that looks the endpoint up in the environment again.
Handler_reresolved ==
  /\ Len(calls) < MaxCalls
  /\ \E ev \in Events, outcome \in BackendOutcomes :
       LET h == handler(ev, environ, outcome) IN
       /\ event' = ev
       /\ backend' = outcome
       /\ made' = h.called
       /\ calls' = IF h.called THEN Append(calls, h.call) ELSE calls
       /\ result' = h.result
       /\ environThen' = environ
  /\ UNCHANGED <<ENDPOINT_NAME, environ>>

\* One invocation of handler in the process; the module global is read, not
\* the environment (index.py:46).
Handler ==
  /\ Len(calls) < MaxCalls
  /\ \E ev \in Events, outcome \in BackendOutcomes :
       LET h == handler(ev, ENDPOINT_NAME, outcome) IN
       /\ event' = ev
       /\ backend' = outcome
       /\ made' = h.called
       /\ calls' = IF h.called THEN Append(calls, h.call) ELSE calls
       /\ result' = h.result
       /\ environThen' = environ
  /\ UNCHANGED <<ENDPOINT_NAME, environ>>

\* The environment configuration is changed to another endpoint while the
\* process lives; index.py has no code that reads it again.
SetEnvironment ==
  /\ \E e \in EndpointNames \ {environ} : environ' = e
  /\ UNCHANGED <<ENDPOINT_NAME, event, backend, made, calls, result, environThen>>

GwNext == Handler \/ SetEnvironment

(* ------------------------- deploy_model_stack.py ------------------------ *)
MaxClock == 5        \* wall-clock readings are 0..MaxClock ticks
MaxRuns == 2         \* provisioning runs in one behaviour
TicksPerSecond == 2  \* clock ticks in one second of the "%S" field

MODEL_PACKAGE_GROUP_NAME == "cdk-blog"

\* The stages of the pipeline (deploy_model_pipeline_stack.py:173,182).
StageIds == {"DEV", "PROD"}

\* str.lower() of a stage id
lower(id) == IF id = "DEV" THEN "dev" ELSE "prod"

\* now.strftime("%Y-%m-%d-%H-%M-%S"): the reading cut to whole seconds.
strftime(now) == now \div TicksPerSecond

\* A resource name is the "-"-joined list of its segments; a name without a
\* kind or without a timestamp has "" or NoTimestamp there.
NoTimestamp == -1
ResourceName(group, stage_name, kind, timestamp) ==
  [group |-> group, stage |-> stage_name, kind |-> kind, timestamp |-> timestamp]

\* model_name = f"{MODEL_PACKAGE_GROUP_NAME}-{stage_name}-{timestamp}"
model_name(stage_name, timestamp) ==
  ResourceName(MODEL_PACKAGE_GROUP_NAME, stage_name, "", timestamp)

\* endpoint_config_name without the timestamp suffix.
endpoint_config_name_unversioned(stage_name, timestamp) ==
  ResourceName(MODEL_PACKAGE_GROUP_NAME, stage_name, "endpointConfig", NoTimestamp)

\* endpoint_config_name =
\*   f"{MODEL_PACKAGE_GROUP_NAME}-{stage_name}-endpointConfig-{timestamp}"
endpoint_config_name(stage_name, timestamp) ==
  ResourceName(MODEL_PACKAGE_GROUP_NAME, stage_name, "endpointConfig", timestamp)

\* endpoint_name with the timestamp suffix of the other two names.
endpoint_name_versioned(stage_name, timestamp) ==
  ResourceName(MODEL_PACKAGE_GROUP_NAME, stage_name, "endpoint", timestamp)

\* endpoint_name = f"{MODEL_PACKAGE_GROUP_NAME}-{stage_name}-endpoint"
endpoint_name(stage_name, timestamp) ==
  ResourceName(MODEL_PACKAGE_GROUP_NAME, stage_name, "endpoint", NoTimestamp)

Resources ==
  {"ModelExecutionPolicy", "ModelExecutionRole", "Model", "EndpointConfig", "Endpoint"}

\* The dependencies without endpoint_config.add_depends_on(model).
DependsOn_without_model ==
  {<<"ModelExecutionRole", "ModelExecutionPolicy">>,
   <<"Model", "ModelExecutionRole">>,
   <<"Endpoint", "EndpointConfig">>}

\* The dependencies of the template, as <<resource, what it waits for>>: the
\* role references the policy, the model the role's ARN, and lines 210 and
\* 222 declare the other two.
DependsOn ==
  {<<"ModelExecutionRole", "ModelExecutionPolicy">>,
   <<"Model", "ModelExecutionRole">>,
   <<"EndpointConfig", "Model">>,
   <<"Endpoint", "EndpointConfig">>}

\* DeployModelStack.__init__ that reads the clock again for the endpoint
\* configuration.
DeployModelStack_second_reading(id, now) ==
  LET stage_name == lower(id)
      timestamp == strftime(now)
      cfn_model == [model_name |-> model_name(stage_name, timestamp)]
      endpoint_config ==
        [endpoint_config_name |-> endpoint_config_name(stage_name, strftime(now + TicksPerSecond)),
         production_variants |-> [model_name |-> cfn_model.model_name]]
      endpoint ==
        [endpoint_config_name |-> endpoint_config.endpoint_config_name,
         endpoint_name |-> endpoint_name(stage_name, timestamp)]
  IN [stage |-> id, now |-> now, timestamp |-> timestamp, model |-> cfn_model,
      endpoint_config |-> endpoint_config, endpoint |-> endpoint,
      depends_on |-> DependsOn]

\* DeployModelStack.__init__ in the stage `id` when datetime.now() reads `now`
DeployModelStack(id, now) ==
  LET stage_name == lower(id)
      timestamp == strftime(now)
      cfn_model == [model_name |-> model_name(stage_name, timestamp)]
      endpoint_config ==
        [endpoint_config_name |-> endpoint_config_name(stage_name, timestamp),
         production_variants |-> [model_name |-> cfn_model.model_name]]
      endpoint ==
        [endpoint_config_name |-> endpoint_config.endpoint_config_name,
         endpoint_name |-> endpoint_name(stage_name, timestamp)]
  IN [stage |-> id, now |-> now, timestamp |-> timestamp, model |-> cfn_model,
      endpoint_config |-> endpoint_config, endpoint |-> endpoint,
      depends_on |-> DependsOn]

\* InferenceStack.__init__: the environment of the gateway function
\* (inference_stack.py:92-100).
InferenceStack(model_endpoint) ==
  [environment |-> [ENDPOINT_NAME |-> model_endpoint.endpoint_name]]

\* ModelStage.__init__ (deploy_model_pipeline_stack.py:54-65)
ModelStage(id, now) ==
  LET deploy_model == DeployModelStack(id, now) IN
  [deploy_model |-> deploy_model,
   inference_stack |-> InferenceStack(deploy_model.endpoint)]

VARIABLES
  clock,    \* the wall clock, in ticks
  runs,     \* the stages synthesized so far, one per provisioning run
  status    \* the resources of the run being deployed

provVars == <<clock, runs, status>>

ProvInit ==
  /\ clock = 0
  /\ runs = <<>>
  /\ status = [r \in Resources |-> "absent"]

Settled == \A r \in Resources : status[r] \in {"absent", "created", "failed"}
Started == \E r \in Resources : status[r] # "absent"
Failed == \E r \in Resources : status[r] = "failed"

\* Time passes.
Tick ==
  /\ clock < MaxClock
  /\ clock' = clock + 1
  /\ UNCHANGED <<runs, status>>

\* A provisioning run starts once the one before it has ended: the stage is
\* synthesized at the current reading and its resources are to be created.
Synth ==
  /\ Len(runs) < MaxRuns
  /\ clock < MaxClock
  /\ Settled
  /\ \E id \in StageIds : runs' = Append(runs, ModelStage(id, clock))
  /\ clock' = clock + 1
  /\ status' = [r \in Resources |-> "pending"]

Template == runs[Len(runs)].deploy_model

\* The deployment creates a resource once everything it depends on exists;
\* resources that do not depend on each other are created in parallel.
StartCreate(r) ==
  /\ status[r] = "pending"
  /\ ~Failed
  /\ \A d \in Template.depends_on : d[1] = r => status[d[2]] = "created"
  /\ status' = [status EXCEPT ![r] = "creating"]
  /\ UNCHANGED <<clock, runs>>

FinishCreate(r) ==
  /\ status[r] = "creating"
  /\ status' = [status EXCEPT ![r] = "created"]
  /\ UNCHANGED <<clock, runs>>

\* A failed creation ends the run; what is pending is never started.
FailCreate(r) ==
  /\ status[r] = "creating"
  /\ status' = [s \in Resources |->
                  IF s = r THEN "failed"
                  ELSE IF status[s] = "pending" THEN "absent" ELSE status[s]]
  /\ UNCHANGED <<clock, runs>>

ProvNext ==
  \/ Tick
  \/ Synth
  \/ \E r \in Resources : StartCreate(r)
  \/ \E r \in Resources : FinishCreate(r)
  \/ \E r \in Resources : FailCreate(r)

(* --------------------- deploy_model_pipeline_stack.py ------------------- *)
MaxExecutions == 2   \* pipeline executions in one behaviour
MaxEvents == 2       \* events seen on the bus in one behaviour

\* PROD without a step before it.
ProdPre_none == <<>>

\* pre=[pipelines.ManualApprovalStep("PromoteToProd")]
ProdPre == <<"PromoteToProd">>

\* The steps of an execution in the order the stack adds them: the source
\* and synth of CodePipeline(...), self mutation, assets, the post step of
\* the SecurityEvaluation wave, the DEV stage, the steps before PROD, PROD.
Steps ==
  <<"Source", "Synth", "SelfMutate", "Assets", "cfn-nag", "DEV">>
    \o ProdPre \o <<"PROD">>

StepIndex(name) == CHOOSE k \in 1..Len(Steps) : Steps[k] = name

\* A manual approval waits for a person; every other step runs by itself.
IsManual(step) == step = "PromoteToProd"

\* The cfn-nag build with the variable FAIL_BUILD set to "false".
FAIL_BUILD_false == "false"

\* "FAIL_BUILD": "true" in the env of the build spec
FAIL_BUILD == "true"

\* SCAN_RESULT=$(cfn_nag_scan ... && echo OK || echo FAILED)
ScanResults == {"OK", "FAILED"}

\* The exit code of the build commands:
\* if [[ "$FAIL_BUILD" = "true" && "$SCAN_RESULT" = "FAILED" ]]; then exit 1; fi
cfn_nag(fail_build, scan_result) ==
  IF fail_build = "true" /\ scan_result = "FAILED" THEN 1 ELSE 0

\* The rule's pattern without the filter on the approval status.
event_pattern_any_status ==
  [source |-> {"aws.sagemaker"},
   detail_type |-> {"SageMaker Model Package State Change"},
   detail |-> [ModelPackageGroupName |-> {MODEL_PACKAGE_GROUP_NAME},
               ModelApprovalStatus |-> {"PendingManualApproval", "Approved", "Rejected"}]]

\* event_pattern of ModelEventRule
event_pattern ==
  [source |-> {"aws.sagemaker"},
   detail_type |-> {"SageMaker Model Package State Change"},
   detail |-> [ModelPackageGroupName |-> {MODEL_PACKAGE_GROUP_NAME},
               ModelApprovalStatus |-> {"Approved"}]]

\* An event matches a pattern when each field the pattern names has one of
\* the listed values.
Matches(pattern, e) ==
  /\ e.source \in pattern.source
  /\ e.detail_type \in pattern.detail_type
  /\ e.detail.ModelPackageGroupName \in pattern.detail.ModelPackageGroupName
  /\ e.detail.ModelApprovalStatus \in pattern.detail.ModelApprovalStatus

BusEvents ==
  [source : {"aws.sagemaker", "aws.codecommit"},
   detail_type : {"SageMaker Model Package State Change",
                  "SageMaker Endpoint State Change"},
   detail : [ModelPackageGroupName : {MODEL_PACKAGE_GROUP_NAME, "cdk-blog-v2"},
             ModelApprovalStatus : {"PendingManualApproval", "Approved", "Rejected"}]]

NoBusEvent ==
  [source |-> "none", detail_type |-> "none",
   detail |-> [ModelPackageGroupName |-> "none", ModelApprovalStatus |-> "none"]]

\* An execution that has just been started.
NewExecution(trigger) ==
  [trigger |-> trigger, step |-> 1, state |-> "running", scan |-> "none",
   approval |-> "none", deployed |-> {}]

VARIABLES
  execs,   \* the executions of the pipeline, oldest first
  evt      \* the event seen last on the bus and its number

pipeVars == <<execs, evt>>

PipeInit ==
  /\ execs = <<>>
  /\ evt = [id |-> 0, event |-> NoBusEvent]

\* The execution after its current step succeeded.
Advance(e) ==
  LET name == Steps[e.step]
      d == IF name \in StageIds THEN e.deployed \cup {name} ELSE e.deployed
  IN IF e.step = Len(Steps)
       THEN [e EXCEPT !.state = "succeeded", !.deployed = d]
       ELSE [e EXCEPT !.step = e.step + 1, !.deployed = d]

Running(i) == i \in 1..Len(execs) /\ execs[i].state = "running"

\* A push to the main branch starts an execution.
SourceChange ==
  /\ Len(execs) < MaxExecutions
  /\ execs' = Append(execs, NewExecution("Source"))
  /\ UNCHANGED evt

\* An event arrives on the bus; the rule starts an execution when the event
\* matches its pattern.
BusEvent ==
  /\ Len(execs) < MaxExecutions
  /\ evt.id < MaxEvents
  /\ \E e \in BusEvents :
       /\ evt' = [id |-> evt.id + 1, event |-> e]
       /\ execs' = IF Matches(event_pattern, e)
                     THEN Append(execs, NewExecution("ModelEventRule"))
                     ELSE execs

\* A step that runs by itself succeeds.
StepSucceeds(i) ==
  /\ Running(i)
  /\ ~IsManual(Steps[execs[i].step])
  /\ Steps[execs[i].step] # "cfn-nag"
  /\ execs' = [execs EXCEPT ![i] = Advance(execs[i])]
  /\ UNCHANGED evt

\* A step that runs by itself fails; the execution stops there.
StepFails(i) ==
  /\ Running(i)
  /\ ~IsManual(Steps[execs[i].step])
  /\ Steps[execs[i].step] # "cfn-nag"
  /\ execs' = [execs EXCEPT ![i].state = "failed"]
  /\ UNCHANGED evt

\* The cfn-nag build runs; a non-zero exit fails the step.
SecurityEvaluation(i) ==
  /\ Running(i)
  /\ Steps[execs[i].step] = "cfn-nag"
  /\ \E scan_result \in ScanResults :
       LET e == [execs[i] EXCEPT !.scan = scan_result] IN
       execs' = [execs EXCEPT ![i] =
                   IF cfn_nag(FAIL_BUILD, scan_result) = 0
                     THEN Advance(e)
                     ELSE [e EXCEPT !.state = "failed"]]
  /\ UNCHANGED evt

\* Somebody approves the manual step.
Approve(i) ==
  /\ Running(i)
  /\ IsManual(Steps[execs[i].step])
  /\ execs' = [execs EXCEPT ![i] = Advance([execs[i] EXCEPT !.approval = "Approved"])]
  /\ UNCHANGED evt

\* Somebody rejects the manual step; the execution stops there.
Reject(i) ==
  /\ Running(i)
  /\ IsManual(Steps[execs[i].step])
  /\ execs' = [execs EXCEPT ![i].approval = "Rejected", ![i].state = "failed"]
  /\ UNCHANGED evt

PipeNext ==
  \/ SourceChange
  \/ BusEvent
  \/ \E i \in 1..MaxExecutions : StepSucceeds(i)
  \/ \E i \in 1..MaxExecutions : StepFails(i)
  \/ \E i \in 1..MaxExecutions : SecurityEvaluation(i)
  \/ \E i \in 1..MaxExecutions : Approve(i)
  \/ \E i \in 1..MaxExecutions : Reject(i)

(* --------------------------- specifications ---------------------------- *)
vars == <<servingVars, concVars, errVars, gwVars, provVars, pipeVars>>

Init == ServingInit /\ ConcInit /\ ErrInit /\ GwAbsent /\ ProvInit /\ PipeInit

Next == ServingNext /\ UNCHANGED <<concVars, errVars, gwVars, provVars, pipeVars>>

Spec == Init /\ [][Next]_vars

ConcStep == ConcNext /\ UNCHANGED <<request, response, trace, errVars, gwVars, provVars, pipeVars>>

ConcSpec == Init /\ [][ConcStep]_vars

ErrStep == ErrNext /\ UNCHANGED <<servingVars, concVars, gwVars, provVars, pipeVars>>

ErrSpec == Init /\ [][ErrStep]_vars

GwStep == GwNext /\ UNCHANGED <<servingVars, concVars, errVars, provVars, pipeVars>>

GwProcessInit == ServingInit /\ ConcInit /\ ErrInit /\ GwInit /\ ProvInit /\ PipeInit

GwSpec == GwProcessInit /\ [][GwStep]_vars

ProvStep == ProvNext /\ UNCHANGED <<servingVars, concVars, errVars, gwVars, pipeVars>>

ProvSpec == Init /\ [][ProvStep]_vars

PipeStep == PipeNext /\ UNCHANGED <<servingVars, concVars, errVars, gwVars, provVars>>

PipeSpec == Init /\ [][PipeStep]_vars

(* ------------------------------ claims --------------------------------- *)

\* C1: two load_model calls in sequence, the first of which loaded a model,
\* touch storage exactly once: the second call does no storage load, does
\* not raise, and leaves the same object in ScoringService.model.
C1_LoadIsIdempotent ==
  [][(/\ trace.calledLoad /\ trace.io = 1 /\ ~trace.loadRaised
      /\ Truthy(model)
      /\ trace'.calledLoad)
     => (/\ trace'.io = 0
         /\ ~trace'.loadRaised
         /\ ioCount' = ioCount
         /\ model' = model)]_vars

\* A later request called load_model on a loaded model while storage held
\* whatever it held: one storage load in total, none by the later call.
C1_Witness ==
  /\ Truthy(model)
  /\ ioCount = 1
  /\ trace.calledLoad
  /\ trace.io = 0

\* C2: at no time are two threads inside joblib.load at once.
C2_SingleLoadInFlight ==
  Cardinality({w \in Workers : pc[w] = "loading"}) <= 1

\* C3: an /invocations request whose content type is not application/json is
\* answered with status 415.
C3_UnsupportedTypeIs415 ==
  (request.route = "/invocations" /\ request.ctype # JSON)
    => response.status = 415

\* C4: an application/json /invocations request whose body is empty, does
\* not parse, or has no "features" key is answered with status 400.
C4_BadBodyIs400 ==
  (/\ request.route = "/invocations"
   /\ request.ctype = JSON
   /\ \/ request.body.text \in {"empty", "garbage"}
      \/ ~request.body.doc.hasFeatures)
    => response.status = 400

\* C5: the batch handed to predict_fn is 2-D; for a 1-D "features" list it
\* is the single row holding that list, for a 2-D list it has the same rows
\* in the same order.
C5_BatchIsNormalized ==
  (/\ request.route = "/invocations"
   /\ trace.calledPredict)
    => LET f == request.body.doc.features IN
       /\ f.t = "list1" => (ndim(trace.batch) = 2 /\ tolist(trace.batch) = <<f.v>>)
       /\ f.t = "list2" => (ndim(trace.batch) = 2 /\ tolist(trace.batch) = f.v)

\* A 1-D list of two features reached predict_fn.
C5_Witness ==
  /\ request.route = "/invocations"
  /\ trace.calledPredict
  /\ request.body.doc.features.t = "list1"
  /\ Len(request.body.doc.features.v) = 2

\* C6: /ping answers healthy (200) exactly when ScoringService.model is set
\* after its load attempt.
C6_HealthyIffLoaded ==
  request.route = "/ping" => (response.status = 200 <=> model # None)

\* C7: every failure answered on /invocations is a named ScoringFailure kind
\* carrying that kind's status code.
ScoringFailureStatus ==
  [k \in {"model_not_loaded", "model_wrong_format", "missing_env",
          "unsupported_payload", "empty_data", "data_not_supported",
          "cannot_read_data", "could_not_return_data",
          "request_not_supported"} |->
     CASE k \in {"model_not_loaded", "model_wrong_format", "missing_env",
                 "cannot_read_data"} -> 500
       [] k = "unsupported_payload" -> 415
       [] k = "could_not_return_data" -> 416
       [] OTHER -> 400]

C7_OnlyNamedFailures ==
  (request.route = "/invocations" /\ response.status # 200)
    => /\ response.exc \in DOMAIN ScoringFailureStatus
       /\ response.status = ScoringFailureStatus[response.exc]

\* C8: each named constructor returns an error with its stated status code
\* and with the payload it was given.
C8_ConstructorStatus ==
  errCall.ctor # "none"
    => /\ err.status_code = ScoringFailureStatus[errCall.ctor]
       /\ err.payload = errCall.payload

\* could_not_return_data was called with a mapping of two items.
C8_Witness ==
  /\ errCall.ctor = "could_not_return_data"
  /\ Cardinality(errCall.payload.items) = 2
  /\ err.status_code = 416

\* C9: for an event on "/inference" the handler calls invoke_endpoint with
\* the configured endpoint, the event's body as received and content type
\* application/json; when the endpoint answers, it returns 200, the fixed
\* header and the value the answer's JSON text denotes.
C9_ForwardsBodyVerbatim ==
  event.resource = "/inference"
    => /\ made
       /\ calls # <<>>
       /\ calls[Len(calls)] = [EndpointName |-> ENDPOINT_NAME,
                               Body |-> event.body,
                               ContentType |-> JSON]
       /\ (backend.ok /\ event.body # None)
            => /\ result.kind = "return"
               /\ result.statusCode = 200
               /\ result.headers = Header
               /\ result.hasBody
               /\ json_dumps(result.body) = backend.text

\* The endpoint answered a forwarded request with two predictions.
C9_Witness ==
  /\ event.resource = "/inference"
  /\ event.body = "{\"features\": [1, 2]}"
  /\ backend.ok
  /\ result.statusCode = 200
  /\ Len(result.body) = 2

\* C10: for an event on any other resource the handler returns 404 with the
\* fixed header and no body, and calls no endpoint.
C10_UnknownResourceIs404 ==
  (event # NoEvent /\ event.resource # "/inference")
    => /\ result.kind = "return"
       /\ result.statusCode = 404
       /\ result.headers = Header
       /\ ~result.hasBody
       /\ ~made

\* An event on "/inference/" was answered after an earlier forwarded call.
C10_Witness ==
  /\ event.resource = "/inference/"
  /\ result.statusCode = 404
  /\ Len(calls) = 1

\* C11: every call the process forwards names the endpoint that was read
\* from the environment when the module was imported, and that value never
\* changes afterwards, whatever the environment configuration becomes.
C11_EndpointResolvedOnce ==
  /\ [](\A i \in 1..Len(calls) : calls[i].EndpointName = ENDPOINT_NAME)
  /\ [][ENDPOINT_NAME' = ENDPOINT_NAME]_vars

\* Two calls were forwarded, the last one while the environment named
\* another endpoint than the one read at import.
C11_Witness ==
  /\ Len(calls) = 2
  /\ made
  /\ environThen # ENDPOINT_NAME
  /\ calls[2].EndpointName = ENDPOINT_NAME

\* C12: in every run the endpoint configuration is not touched before the
\* model exists, the endpoint not before the endpoint configuration exists,
\* and no two of the three are being created at the same time.
C12_CreationChain ==
  LET begun(r) == status[r] \in {"creating", "created", "failed"} IN
  /\ begun("EndpointConfig") => status["Model"] = "created"
  /\ begun("Endpoint") => status["EndpointConfig"] = "created"
  /\ Cardinality({r \in {"Model", "EndpointConfig", "Endpoint"} :
                    status[r] = "creating"}) <= 1

\* A run created all three, the endpoint last.
C12_Witness ==
  /\ runs # <<>>
  /\ status["Model"] = "created"
  /\ status["EndpointConfig"] = "created"
  /\ status["Endpoint"] = "created"

\* C13: in every run the model name and the endpoint configuration name
\* carry the one timestamp of the run, which is the reading of the clock cut
\* to seconds, and the production variant names the model by that name.
C13_OneTimestampPerRun ==
  \A i \in 1..Len(runs) :
    LET d == runs[i].deploy_model IN
    /\ d.timestamp = d.now \div TicksPerSecond
    /\ d.model.model_name.timestamp = d.timestamp
    /\ d.endpoint_config.endpoint_config_name.timestamp = d.timestamp
    /\ d.endpoint_config.production_variants.model_name = d.model.model_name

\* A run was synthesized at a reading that is not a whole second.
C13_Witness ==
  \E i \in 1..Len(runs) :
    /\ runs[i].deploy_model.now % TicksPerSecond # 0
    /\ runs[i].deploy_model.timestamp > 0

SameStage(i, j) == runs[i].deploy_model.stage = runs[j].deploy_model.stage

\* C14 as stated: any two runs for the same stage have different endpoint
\* configuration names, different model names and different timestamps.
C14_NamesNeverCollide ==
  \A i, j \in 1..Len(runs) :
    (i < j /\ SameStage(i, j))
      => LET a == runs[i].deploy_model
             b == runs[j].deploy_model
         IN /\ a.endpoint_config.endpoint_config_name # b.endpoint_config.endpoint_config_name
            /\ a.model.model_name # b.model.model_name
            /\ a.timestamp # b.timestamp

\* C14 amended: two runs for the same stage that read the clock in different
\* seconds have different endpoint configuration names, different model
\* names and different timestamps.
C14_NamesDifferAcrossSeconds ==
  \A i, j \in 1..Len(runs) :
    (/\ i < j
     /\ SameStage(i, j)
     /\ runs[i].deploy_model.now \div TicksPerSecond
          # runs[j].deploy_model.now \div TicksPerSecond)
      => LET a == runs[i].deploy_model
             b == runs[j].deploy_model
         IN /\ a.endpoint_config.endpoint_config_name # b.endpoint_config.endpoint_config_name
            /\ a.model.model_name # b.model.model_name
            /\ a.timestamp # b.timestamp

\* Two runs for one stage, read in different seconds.
C14_Witness ==
  /\ Len(runs) = 2
  /\ SameStage(1, 2)
  /\ runs[1].deploy_model.timestamp < runs[2].deploy_model.timestamp

AtGate(e) == e.state = "running" /\ Steps[e.step] = "PromoteToProd"

\* C16: an execution has deployed PROD only if PromoteToProd was approved;
\* an execution waiting at PromoteToProd has deployed DEV with no approval
\* given and leaves the gate only by an approval or a rejection.
C16_ProdOnlyAfterApproval ==
  /\ [](\A i \in 1..Len(execs) :
          /\ "PROD" \in execs[i].deployed => execs[i].approval = "Approved"
          /\ AtGate(execs[i]) =>
               (/\ execs[i].deployed = {"DEV"}
                /\ execs[i].approval = "none"))
  /\ [][\A i \in 1..Len(execs) :
          (AtGate(execs[i]) /\ execs'[i] # execs[i])
            => execs'[i].approval \in {"Approved", "Rejected"}]_vars

\* One execution has deployed PROD after its approval while another one
\* still waits at the gate.
C16_Witness ==
  /\ \E i \in 1..Len(execs) :
       "PROD" \in execs[i].deployed /\ execs[i].approval = "Approved"
  /\ \E i \in 1..Len(execs) : AtGate(execs[i])

IsModelPackageStateChange(e) ==
  /\ e.source = "aws.sagemaker"
  /\ e.detail_type = "SageMaker Model Package State Change"

\* C17: a model-package state-change event starts an execution exactly when
\* its status is Approved and its group is the configured one.
C17_OnlyApprovedTriggers ==
  [][(evt'.id # evt.id /\ IsModelPackageStateChange(evt'.event))
       => ((/\ Len(execs') = Len(execs) + 1
            /\ execs'[Len(execs')].trigger = "ModelEventRule")
           <=> (/\ evt'.event.detail.ModelApprovalStatus = "Approved"
                /\ evt'.event.detail.ModelPackageGroupName = MODEL_PACKAGE_GROUP_NAME))]_vars

\* A Rejected event for the group went by without an execution, and an
\* Approved one started the only execution there is.
C17_Witness ==
  /\ evt.id = 2
  /\ evt.event.detail.ModelApprovalStatus = "Approved"
  /\ Len(execs) = 1
  /\ execs[1].trigger = "ModelEventRule"

\* C18: the scan runs after the synth step and before any stage is
\* deployed; an execution whose scan reported FAILED has stopped and has
\* deployed neither DEV nor PROD.
C18_FailedScanStops ==
  \A i \in 1..Len(execs) :
    LET e == execs[i] IN
    /\ e.scan # "none" => e.step > StepIndex("Synth")
    /\ e.deployed # {} => e.scan = "OK"
    /\ e.scan = "FAILED" => (e.state = "failed" /\ e.deployed = {})

\* An execution stopped at the scan while another one deployed DEV.
C18_Witness ==
  /\ \E i \in 1..Len(execs) :
       execs[i].scan = "FAILED" /\ execs[i].state = "failed"
  /\ \E i \in 1..Len(execs) : "DEV" \in execs[i].deployed

\* C19: whenever predict_fn runs with no model loaded, the failure answered
\* is model_not_loaded with status 500.
C19_PredictWithoutModel ==
  (trace.calledPredict /\ ~Truthy(model))
    => (response.exc = "model_not_loaded" /\ response.status = 500)

\* C20: a load_model call that raises leaves ScoringService.model unset;
\* while the model is unset every load_model call goes to storage, and once
\* a model is set no call does.
C20_FailedLoadKeepsNothing ==
  [][trace'.calledLoad
       => /\ trace'.loadRaised => (model' = model /\ model' = None)
          /\ ~Truthy(model) => (trace'.io = 1 /\ ioCount' = ioCount + 1)
          /\ Truthy(model) => (trace'.io = 0 /\ ~trace'.loadRaised)]_vars

\* A load_model call went to storage again after an earlier attempt left
\* no model, raised as well, and the model is still unset.
C20_Witness ==
  /\ trace.calledLoad
  /\ trace.loadRaised
  /\ ioCount >= 2
  /\ model = None

\* C21: an /invocations request whose content type is not application/json
\* is answered without a load_model, input_fn or predict_fn call, without a
\* storage load, and with ScoringService.model left as it was.
C21_RejectedBeforeModelWork ==
  [][(request'.route = "/invocations" /\ request'.ctype # JSON)
       => /\ ~trace'.calledLoad
          /\ ~trace'.calledInput
          /\ ~trace'.calledPredict
          /\ trace'.io = 0
          /\ ioCount' = ioCount
          /\ model' = model]_vars

\* A text/plain request was rejected while nothing was loaded yet: no load
\* was attempted for it and the model is still unset.
C21_Witness ==
  /\ request.route = "/invocations"
  /\ request.ctype = "text/plain"
  /\ response.exc = "ValueError"
  /\ ~trace.calledLoad
  /\ ioCount = 0
  /\ model = None

====
